---- MODULE Spec2Model ----
(***************************************************************************)
(* Model of inflation_analysis.py: the implicit price index derived from   *)
(* nominal/real revenue (calculate_inflation_rates), the real revenue      *)
(* reconstructed from a chain of annual rates                              *)
(* (calculate_real_umsatz_with_destatis) and the comparison main() makes   *)
(* of the two.                                                             *)
(*                                                                         *)
(* A DataFrame is a sequence of rows, a row a record whose fields are the  *)
(* frame's columns.  A float is an exact fraction <<n, d>> in lowest terms *)
(* with d > 0; <<1, 0>>, <<-1, 0>> and <<0, 0>> are +inf, -inf and NaN, the *)
(* values numpy's division by zero produces.  Rounding of binary floats    *)
(* is not represented.                                                     *)
(***************************************************************************)
EXTENDS Integers, Sequences, FiniteSets, TLC

VARIABLES op, pc, base_year, df, df_nominal, df_destatis, result_df,
          preisindex, it, df_combined, report, summary, returned, error

vars == <<op, pc, base_year, df, df_nominal, df_destatis, result_df,
          preisindex, it, df_combined, report, summary, returned, error>>

(***************************************************************************)
(* Bounds of the explored inputs.                                          *)
(***************************************************************************)
MaxLen == 3

MaxRates == 2

Years == {2020, 2025, 2026}

BaseYears == {2020, 2025}

NominalValues == {<<0, 1>>, <<10, 1>>, <<11, 1>>}

RealValues == {<<0, 1>>, <<8, 1>>, <<10, 1>>}

RateValues == {<<1, 10>>, <<1, 5>>}

\* base_year=2020: the default of both calculators and the value main passes.
DefaultBaseYear == 2020

\* The year main's closing summary reads (df['jahr'] == 2025).
SummaryYear == 2025

(***************************************************************************)
(* Float arithmetic.                                                       *)
(***************************************************************************)
Abs(x) == IF x < 0 THEN -x ELSE x

Sgn(x) == IF x < 0 THEN -1 ELSE IF x > 0 THEN 1 ELSE 0

RECURSIVE GCD(_, _)
GCD(a, b) == IF b = 0 THEN a ELSE GCD(b, a % b)

Norm(n, d) ==
    IF d = 0 THEN <<Sgn(n), 0>>
    ELSE LET g == GCD(Abs(n), Abs(d))
             s == IF d < 0 THEN -1 ELSE 1
         IN  <<(s * n) \div g, (s * d) \div g>>

NaN == <<0, 0>>

One == <<1, 1>>

Zero == <<0, 1>>

Hundred == <<100, 1>>

IsNaN(x) == x = NaN

IsFinite(x) == x[2] # 0

FMul(a, b) == Norm(a[1] * b[1], a[2] * b[2])

FDiv(a, b) ==
    LET s == IF b[1] < 0 THEN -1 ELSE 1
    IN  Norm(s * a[1] * b[2], s * a[2] * b[1])

FAdd(a, b) ==
    IF a[2] = 0 /\ b[2] = 0
    THEN IF a = b THEN a ELSE NaN
    ELSE Norm(a[1] * b[2] + b[1] * a[2], a[2] * b[2])

FSub(a, b) == FAdd(a, <<-b[1], b[2]>>)

(***************************************************************************)
(* DataFrame helpers.                                                      *)
(***************************************************************************)
\* frame[frame['jahr'] == jahr]: the rows of that year, in frame order.
RowsOf(frame, jahr) == SelectSeq(frame, LAMBDA r : r.jahr = jahr)

YearsOf(frame) == {frame[k].jahr : k \in DOMAIN frame}

\* Series.fillna(method='pad'): a NaN takes the last value before it.
RECURSIVE PadAt(_, _)
PadAt(s, k) ==
    IF k > 1 /\ IsNaN(s[k]) THEN PadAt(s, k - 1) ELSE s[k]

FillMethods == {"pad", "none"}

\* Series.pct_change(): data / data.shift(1) - 1 in row order; the default
\* fill_method is 'pad' in pandas before 3.0 and None from 3.0 on.
pct_change(s, fill_method) ==
    LET data == IF fill_method = "pad"
                THEN [k \in DOMAIN s |-> PadAt(s, k)]
                ELSE s
    IN  [k \in DOMAIN s |->
            IF k = 1 THEN NaN ELSE FSub(FDiv(data[k], data[k - 1]), One)]

(***************************************************************************)
(* calculate_inflation_rates                                               *)
(***************************************************************************)
\* A variant that anchors on the frame's first row, whatever its year.
BaseRatioFirstRow(frame, by) ==
    FDiv(frame[1].umsatz_nominal, frame[1].umsatz_real)

\* base_row = df[df['jahr'] == base_year].iloc[0]; nominal / real of it.
BaseRatio(frame, by) ==
    LET base_row == Head(RowsOf(frame, by))
    IN  FDiv(base_row.umsatz_nominal, base_row.umsatz_real)

PreisRatio(r) == FDiv(r.umsatz_nominal, r.umsatz_real)

Preisindex(r, base_ratio) == FDiv(PreisRatio(r), base_ratio)

InflationKumulativ(index) == FMul(FSub(index, One), Hundred)

\* The frame after the four column assignments, rows in their given order.
WithInflationColumns(frame, by, fill_method) ==
    LET base_ratio == BaseRatio(frame, by)
        index == [k \in DOMAIN frame |-> Preisindex(frame[k], base_ratio)]
        change == pct_change(index, fill_method)
    IN  [k \in DOMAIN frame |->
            [jahr |-> frame[k].jahr,
             umsatz_nominal |-> frame[k].umsatz_nominal,
             umsatz_real |-> frame[k].umsatz_real,
             preis_ratio |-> PreisRatio(frame[k]),
             preisindex |-> index[k],
             inflation_kumulativ |-> InflationKumulativ(index[k]),
             inflation_jaehrlich |-> FMul(change[k], Hundred)]]

\* df[df['jahr'] == jahr]...iloc[0] on an empty selection raises IndexError.
LookupFails(frame, jahr) == RowsOf(frame, jahr) = <<>>

\* Where control goes once a calculator has returned to its caller.
AfterCall(name) ==
    IF op = "main"
    THEN IF name = "calculate_inflation_rates" THEN "select_nominal" ELSE "merge"
    ELSE "done"

calculate_inflation_rates ==
    /\ pc = "calculate_inflation_rates"
    /\ IF LookupFails(df, base_year)
       THEN /\ error' = "IndexError"
            /\ pc' = "done"
            /\ UNCHANGED <<df, returned>>
       ELSE /\ \E fill_method \in FillMethods :
                 df' = WithInflationColumns(df, base_year, fill_method)
            /\ returned' = returned \cup {"calculate_inflation_rates"}
            /\ pc' = AfterCall("calculate_inflation_rates")
            /\ UNCHANGED error
    /\ UNCHANGED <<op, base_year, df_nominal, df_destatis, result_df,
                   preisindex, it, df_combined, report, summary>>

(***************************************************************************)
(* calculate_real_umsatz_with_destatis                                     *)
(***************************************************************************)
\* result_df = df_nominal.copy() with the three default columns, then the
\* base year's rows set to base_nominal (the first base-year row's nominal).
ChainedDefaults(frame, by) ==
    LET base_nominal == Head(RowsOf(frame, by)).umsatz_nominal
    IN  [k \in DOMAIN frame |->
            [jahr |-> frame[k].jahr,
             umsatz_nominal |-> frame[k].umsatz_nominal,
             umsatz_real_destatis |->
                 IF frame[k].jahr = by THEN base_nominal
                 ELSE frame[k].umsatz_nominal,
             preisindex_destatis |-> One,
             inflation_kumulativ_destatis |-> Zero]]

\* preisindex *= (1 + inflation_rate)
ChainIndex(index, inflation_rate) == FMul(index, FAdd(One, inflation_rate))

\* A carry-forward variant of the mask: the rows of that year and of every
\* later year.
MaskFromYear(r, jahr) == r.jahr >= jahr

\* mask = result_df['jahr'] == jahr
Mask(r, jahr) == r.jahr = jahr

\* The three result_df.loc[mask, ...] assignments of one loop pass.
SetRows(result, jahr, real_umsatz, index) ==
    [k \in DOMAIN result |->
        IF Mask(result[k], jahr)
        THEN [result[k] EXCEPT
                 !.umsatz_real_destatis = real_umsatz,
                 !.preisindex_destatis = index,
                 !.inflation_kumulativ_destatis = InflationKumulativ(index)]
        ELSE result[k]]

\* A lenient variant of the loop body: a rate record whose year the nominal
\* series lacks is skipped.
LoopBodySkipMissing(result, index, row, frame) ==
    IF LookupFails(frame, row.jahr)
    THEN [result_df |-> result, error |-> "none"]
    ELSE LET nominal_umsatz == Head(RowsOf(frame, row.jahr)).umsatz_nominal
         IN  [result_df |-> SetRows(result, row.jahr,
                                    FDiv(nominal_umsatz, index), index),
              error |-> "none"]

\* One pass of the loop after preisindex was updated to index: the nominal
\* lookup, which raises when the year is missing, and the assignments.
LoopBody(result, index, row, frame) ==
    IF LookupFails(frame, row.jahr)
    THEN [result_df |-> result, error |-> "IndexError"]
    ELSE LET nominal_umsatz == Head(RowsOf(frame, row.jahr)).umsatz_nominal
         IN  [result_df |-> SetRows(result, row.jahr,
                                    FDiv(nominal_umsatz, index), index),
              error |-> "none"]

calculate_real_umsatz_with_destatis ==
    /\ pc = "calculate_real_umsatz_with_destatis"
    /\ IF LookupFails(df_nominal, base_year)
       THEN /\ error' = "IndexError"
            /\ pc' = "done"
            /\ UNCHANGED <<result_df, preisindex, it>>
       ELSE /\ result_df' = ChainedDefaults(df_nominal, base_year)
            /\ preisindex' = One
            /\ it' = 1
            /\ pc' = "iterrows"
            /\ UNCHANGED error
    /\ UNCHANGED <<op, base_year, df, df_nominal, df_destatis, df_combined,
                   report, summary, returned>>

iterrows ==
    /\ pc = "iterrows"
    /\ it <= Len(df_destatis)
    /\ LET row == df_destatis[it]
           index == ChainIndex(preisindex, row.inflation_rate_jahr)
           body == LoopBody(result_df, index, row, df_nominal)
       IN  /\ preisindex' = index
           /\ result_df' = body.result_df
           /\ error' = body.error
           /\ IF body.error = "none"
              THEN it' = it + 1 /\ pc' = "iterrows"
              ELSE it' = it /\ pc' = "done"
    /\ UNCHANGED <<op, base_year, df, df_nominal, df_destatis, df_combined,
                   report, summary, returned>>

return_result_df ==
    /\ pc = "iterrows"
    /\ it > Len(df_destatis)
    /\ df_combined' = result_df
    /\ returned' = returned \cup {"calculate_real_umsatz_with_destatis"}
    /\ pc' = AfterCall("calculate_real_umsatz_with_destatis")
    /\ UNCHANGED <<op, base_year, df, df_nominal, df_destatis, result_df,
                   preisindex, it, report, summary, error>>

(***************************************************************************)
(* main: the comparison of the two derivations                             *)
(***************************************************************************)
\* df_nominal = df[['jahr', 'umsatz_nominal']].copy()
SelectNominal(frame) ==
    [k \in DOMAIN frame |->
        [jahr |-> frame[k].jahr, umsatz_nominal |-> frame[k].umsatz_nominal]]

select_nominal ==
    /\ pc = "select_nominal"
    /\ df_nominal' = SelectNominal(df)
    /\ pc' = "calculate_real_umsatz_with_destatis"
    /\ UNCHANGED <<op, base_year, df, df_destatis, result_df, preisindex, it,
                   df_combined, report, summary, returned, error>>

\* One left row joined with one right row, or with NaN for no match.
Joined(l, real, index, kumulativ) ==
    [jahr |-> l.jahr,
     umsatz_nominal |-> l.umsatz_nominal,
     umsatz_real_destatis |-> l.umsatz_real_destatis,
     preisindex_destatis |-> l.preisindex_destatis,
     inflation_kumulativ_destatis |-> l.inflation_kumulativ_destatis,
     umsatz_real |-> real,
     preisindex |-> index,
     inflation_kumulativ |-> kumulativ]

JoinRow(l, right) ==
    LET match == RowsOf(right, l.jahr)
    IN  IF match = <<>>
        THEN <<Joined(l, NaN, NaN, NaN)>>
        ELSE [k \in DOMAIN match |->
                 Joined(l, match[k].umsatz_real, match[k].preisindex,
                        match[k].inflation_kumulativ)]

\* pd.merge(left, right[[...]], on='jahr', how='left'): left order kept.
RECURSIVE merge(_, _)
merge(left, right) ==
    IF left = <<>> THEN <<>>
    ELSE JoinRow(Head(left), right) \o merge(Tail(left), right)

main_merge ==
    /\ pc = "merge"
    /\ df_combined' = merge(df_combined, df)
    /\ pc' = "print_destatis_comparison"
    /\ UNCHANGED <<op, base_year, df, df_nominal, df_destatis, result_df,
                   preisindex, it, report, summary, returned, error>>

\* The two differences the comparison tables compute for one row.
ComparisonRow(row) ==
    [jahr |-> row.jahr,
     differenz |-> FSub(row.umsatz_real_destatis, row.umsatz_real),
     diff_kumul |-> FSub(row.inflation_kumulativ_destatis,
                         row.inflation_kumulativ)]

print_destatis_comparison ==
    /\ pc = "print_destatis_comparison"
    /\ report' = [k \in DOMAIN df_combined |-> ComparisonRow(df_combined[k])]
    /\ pc' = "summary"
    /\ UNCHANGED <<op, base_year, df, df_nominal, df_destatis, result_df,
                   preisindex, it, df_combined, summary, returned, error>>

RECURSIVE SumRates(_)
SumRates(rates) ==
    IF rates = <<>> THEN Zero
    ELSE FAdd(Head(rates).inflation_rate_jahr, SumRates(Tail(rates)))

\* df_destatis['inflation_rate_jahr'].mean() * 100; NaN for no rates.
AvgDestatis(rates) ==
    FMul(FDiv(SumRates(rates), <<Len(rates), 1>>), Hundred)

\* A variant with the operands of the difference exchanged.
DifferenzReversed(destatis, lakner) == FSub(lakner, destatis)

\* inflation_2025_destatis - inflation_2025_lakner
Differenz(destatis, lakner) == FSub(destatis, lakner)

\* The closing figures, read at the fixed year 2025.
Summary(frame, combined, rates) ==
    LET inflation_2025_lakner ==
            Head(RowsOf(frame, SummaryYear)).inflation_kumulativ
        inflation_2025_destatis ==
            Head(RowsOf(combined, SummaryYear)).inflation_kumulativ_destatis
    IN  [inflation_2025_lakner |-> inflation_2025_lakner,
         inflation_2025_destatis |-> inflation_2025_destatis,
         differenz |-> Differenz(inflation_2025_destatis, inflation_2025_lakner),
         avg_destatis |-> AvgDestatis(rates)]

main_summary ==
    /\ pc = "summary"
    /\ IF LookupFails(df, SummaryYear) \/ LookupFails(df_combined, SummaryYear)
       THEN error' = "IndexError" /\ UNCHANGED summary
       ELSE summary' = <<Summary(df, df_combined, df_destatis)>> /\ UNCHANGED error
    /\ pc' = "done"
    /\ UNCHANGED <<op, base_year, df, df_nominal, df_destatis, result_df,
                   preisindex, it, df_combined, report, returned>>

(***************************************************************************)
(* Inputs and the specification                                            *)
(***************************************************************************)
UniqueYears(frame) ==
    \A j, k \in DOMAIN frame : j # k => frame[j].jahr # frame[k].jahr

\* Frames of at most n rows over a set of rows, one row per year at most, in
\* any row order.
Frames(rows, n) ==
    {f \in UNION {[1..m -> rows] : m \in 0..n} : UniqueYears(f)}

YearRecords ==
    [jahr : Years, umsatz_nominal : NominalValues, umsatz_real : RealValues]

\* The series main is run on: positive revenue, one real value.
PositiveYearRecords ==
    {r \in YearRecords : r.umsatz_nominal # Zero /\ r.umsatz_real = <<8, 1>>}

NominalRecords == [jahr : Years, umsatz_nominal : NominalValues \ {Zero}]

RateRecords == [jahr : Years, inflation_rate_jahr : RateValues]

\* Rate sequences in any order, a year possibly more than once.
RateFrames == UNION {[1..m -> RateRecords] : m \in 0..MaxRates}

InitCommon ==
    /\ result_df = <<>>
    /\ preisindex = One
    /\ it = 1
    /\ df_combined = <<>>
    /\ report = <<>>
    /\ summary = <<>>
    /\ returned = {}
    /\ error = "none"

Init ==
    /\ InitCommon
    /\ \/ /\ op = "calculate_inflation_rates"
          /\ pc = "calculate_inflation_rates"
          /\ base_year \in BaseYears
          /\ df \in Frames(YearRecords, MaxLen)
          /\ df_nominal = <<>>
          /\ df_destatis = <<>>
       \/ /\ op = "calculate_real_umsatz_with_destatis"
          /\ pc = "calculate_real_umsatz_with_destatis"
          /\ base_year \in BaseYears
          /\ df = <<>>
          /\ df_nominal \in Frames(NominalRecords, MaxLen)
          /\ df_destatis \in RateFrames
       \/ /\ op = "main"
          /\ pc = "calculate_inflation_rates"
          /\ base_year = DefaultBaseYear
          /\ df \in Frames(PositiveYearRecords, MaxLen)
          /\ df_nominal = <<>>
          /\ df_destatis \in RateFrames

Next ==
    \/ calculate_inflation_rates
    \/ calculate_real_umsatz_with_destatis
    \/ iterrows
    \/ return_result_df
    \/ select_nominal
    \/ main_merge
    \/ print_destatis_comparison
    \/ main_summary

Spec == Init /\ [][Next]_vars

(***************************************************************************)
(* Properties                                                              *)
(***************************************************************************)
ImplicitName == "calculate_inflation_rates"

ChainedName == "calculate_real_umsatz_with_destatis"

\* calculate_inflation_rates has returned: df holds its output.
ImplicitReturned == ImplicitName \in returned

\* calculate_real_umsatz_with_destatis has returned: df_combined holds its
\* output (main adds columns to it later and keeps the chained ones).
ChainedReturned == ChainedName \in returned

RowOf(frame, jahr) == Head(RowsOf(frame, jahr))

MinYear(frame) == CHOOSE y \in YearsOf(frame) : \A z \in YearsOf(frame) : y <= z

MaxYear(frame) == CHOOSE y \in YearsOf(frame) : \A z \in YearsOf(frame) : z <= y

\* The next smaller year present in the frame.
PrevYear(frame, y) ==
    CHOOSE p \in YearsOf(frame) :
        p < y /\ \A z \in YearsOf(frame) : z < y => z <= p

\* The product of (1 + rate) over the rate records with year <= y.
RECURSIVE ProductUpTo(_, _)
ProductUpTo(rates, y) ==
    IF rates = <<>> THEN One
    ELSE LET rest == ProductUpTo(Tail(rates), y)
         IN  IF Head(rates).jahr <= y
             THEN FMul(FAdd(One, Head(rates).inflation_rate_jahr), rest)
             ELSE rest

SortedStrictly(rates) ==
    \A j, k \in DOMAIN rates : j < k => rates[j].jahr < rates[k].jahr

\* C1: in the output of calculate_real_umsatz_with_destatis the base year's
\* row has index 1.0, cumulative inflation 0.0 and real revenue equal to its
\* nominal revenue, whatever rate records were supplied, one for the base
\* year included.
C1_BaseYearPinned ==
    ChainedReturned =>
        \A k \in DOMAIN df_combined :
            df_combined[k].jahr = base_year =>
                /\ df_combined[k].preisindex_destatis = One
                /\ df_combined[k].inflation_kumulativ_destatis = Zero
                /\ df_combined[k].umsatz_real_destatis = df_combined[k].umsatz_nominal

\* Every row of the output of calculate_inflation_rates follows the formulas:
\* index = (nominal/real) / (nominal_base/real_base), cumulative = (index-1)*100.
ImplicitFormulas ==
    LET b == RowOf(df, base_year)
    IN  \A k \in DOMAIN df :
            /\ df[k].preisindex =
                   FDiv(FDiv(df[k].umsatz_nominal, df[k].umsatz_real),
                        FDiv(b.umsatz_nominal, b.umsatz_real))
            /\ df[k].inflation_kumulativ =
                   FMul(FSub(df[k].preisindex, One), Hundred)

ImplicitBaseAnchored ==
    \A k \in DOMAIN df :
        df[k].jahr = base_year =>
            df[k].preisindex = One /\ df[k].inflation_kumulativ = Zero

C2_Precondition ==
    /\ ImplicitReturned
    /\ Len(RowsOf(df, base_year)) = 1
    /\ \A k \in DOMAIN df : df[k].umsatz_real # Zero

\* C2 as stated: with one base-year record and non-zero real revenue in every
\* record, the base year has price index 1.0 and cumulative inflation 0.0
\* exactly and every row follows the index formulas.
C2_AsStated == C2_Precondition => ImplicitBaseAnchored /\ ImplicitFormulas

\* C2, amended: the same, for series whose base-year nominal revenue is not
\* zero either (a zero base ratio makes every index a division by zero).
C2_BaseAnchoredIndex ==
    (C2_Precondition /\ RowOf(df, base_year).umsatz_nominal # Zero)
        => ImplicitBaseAnchored /\ ImplicitFormulas

\* A returned series of several rows whose base year is not the first row and
\* whose other years have an index different from 1.0.
C2_Witness ==
    /\ C2_Precondition
    /\ RowOf(df, base_year).umsatz_nominal # Zero
    /\ Len(df) >= 2
    /\ df[1].jahr # base_year
    /\ df[1].preisindex # One
    /\ IsFinite(df[1].preisindex)

\* C3: for a series of non-zero revenues in any row order, the annual rate of
\* a year is (index(y)/index(previous year present) - 1) * 100 and it is
\* undefined for the earliest year of the series and for no other year.
C3_AnnualRateByYear ==
    ( /\ ImplicitReturned
      /\ \A k \in DOMAIN df :
            df[k].umsatz_nominal # Zero /\ df[k].umsatz_real # Zero )
    => \A k \in DOMAIN df :
          IF df[k].jahr = MinYear(df)
          THEN IsNaN(df[k].inflation_jaehrlich)
          ELSE /\ ~IsNaN(df[k].inflation_jaehrlich)
               /\ df[k].inflation_jaehrlich =
                      FMul(FSub(FDiv(df[k].preisindex,
                                     RowOf(df, PrevYear(df, df[k].jahr)).preisindex),
                                One),
                           Hundred)

\* C4: for every rate sequence the index recorded for a rate year y is the
\* product of (1 + rate) over all rate records with year <= y, the real
\* revenue is nominal / index and the cumulative inflation (index - 1) * 100.
C4_ChainedProduct ==
    ChainedReturned =>
        \A k \in DOMAIN df_combined :
            df_combined[k].jahr \in YearsOf(df_destatis) =>
                LET index == ProductUpTo(df_destatis, df_combined[k].jahr)
                IN  /\ df_combined[k].preisindex_destatis = index
                    /\ df_combined[k].umsatz_real_destatis =
                           FDiv(df_combined[k].umsatz_nominal, index)
                    /\ df_combined[k].inflation_kumulativ_destatis =
                           FMul(FSub(index, One), Hundred)

\* A failure of the chained calculator has one of the two missing-record
\* causes: the base year, or the year of a rate record, is not in the nominal
\* series.
MissingForChained ==
    \/ base_year \notin YearsOf(df_nominal)
    \/ ~(YearsOf(df_destatis) \subseteq YearsOf(df_nominal))

\* C5: a year of the nominal series without a rate record keeps index 1.0,
\* cumulative inflation 0.0 and real = nominal in the output, also between
\* years that have rate records, and a missing rate record makes no call fail.
C5_NoRateKeepsDefaults ==
    /\ ChainedReturned =>
          \A k \in DOMAIN df_combined :
              df_combined[k].jahr \notin YearsOf(df_destatis) =>
                  /\ df_combined[k].preisindex_destatis = One
                  /\ df_combined[k].inflation_kumulativ_destatis = Zero
                  /\ df_combined[k].umsatz_real_destatis = df_combined[k].umsatz_nominal
    /\ (op = ChainedName /\ pc = "done" /\ ~MissingForChained)
          => ChainedReturned /\ error = "none"

\* A returned series with a non-base year that has no rate record, between an
\* earlier year whose recorded index is not 1.0 and a later year with a rate.
C5_Witness ==
    /\ op = ChainedName
    /\ ChainedReturned
    /\ \E k, e \in DOMAIN df_combined :
          /\ df_combined[k].jahr \notin YearsOf(df_destatis)
          /\ df_combined[k].jahr # base_year
          /\ df_combined[e].jahr < df_combined[k].jahr
          /\ df_combined[e].preisindex_destatis # One
          /\ \E y \in YearsOf(df_destatis) : y > df_combined[k].jahr

\* The first rate record whose year the nominal series lacks.
FirstMissingRate ==
    CHOOSE k \in DOMAIN df_destatis :
        /\ df_destatis[k].jahr \notin YearsOf(df_nominal)
        /\ \A j \in 1..(k - 1) : df_destatis[j].jahr \in YearsOf(df_nominal)

\* C6: when the base year is missing from the series given to either
\* calculator, or a rate record names a year missing from the nominal series,
\* the call fails with the lookup's error at the first use of the missing
\* record (the base lookup before any row is derived, the loop pass of the
\* first such rate record) and returns no output.
C6_MissingYearFails ==
    /\ (op = ImplicitName /\ base_year \notin YearsOf(df))
          => /\ ~ImplicitReturned
             /\ pc = "done" => error = "IndexError"
             /\ \A k \in DOMAIN df : DOMAIN df[k] = {"jahr", "umsatz_nominal", "umsatz_real"}
    /\ (op = ChainedName /\ MissingForChained)
          => /\ ~ChainedReturned
             /\ df_combined = <<>>
             /\ pc = "done" =>
                   /\ error = "IndexError"
                   /\ IF base_year \notin YearsOf(df_nominal)
                      THEN result_df = <<>> /\ it = 1
                      ELSE it = FirstMissingRate

\* A failed chained call whose second rate record names the missing year,
\* after the first one was chained.
C6_Witness ==
    /\ op = ChainedName
    /\ pc = "done"
    /\ error = "IndexError"
    /\ base_year \in YearsOf(df_nominal)
    /\ it = 2
    /\ preisindex # One
    /\ ~ChainedReturned

\* C7: when a record of the series has real revenue 0 the call of
\* calculate_inflation_rates fails and returns no series, and no returned
\* series holds an infinite or undefined price index.
C7_ZeroRealFails ==
    /\ ( /\ op = ImplicitName
         /\ pc = "done"
         /\ \E k \in DOMAIN df : df[k].umsatz_real = Zero )
       => error # "none" /\ ~ImplicitReturned
    /\ ImplicitReturned => \A k \in DOMAIN df : IsFinite(df[k].preisindex)

\* C8: when the rate sequence is not sorted ascending by year or holds a year
\* twice, the call of calculate_real_umsatz_with_destatis fails and returns no
\* series.
C8_UnsortedRatesFail ==
    (op = ChainedName /\ pc = "done" /\ ~SortedStrictly(df_destatis))
        => error # "none" /\ ~ChainedReturned

\* The comparison has one row per year present in both series, with
\* real_diff = real_b - real_a and cum_inflation_diff = cum_b - cum_a.
ReconciliationRows ==
    /\ Len(report) = Cardinality(YearsOf(df) \cap YearsOf(result_df))
    /\ \A y \in YearsOf(df) \cap YearsOf(result_df) :
          /\ Len(RowsOf(report, y)) = 1
          /\ RowOf(report, y).differenz =
                 FSub(RowOf(result_df, y).umsatz_real_destatis,
                      RowOf(df, y).umsatz_real)
          /\ RowOf(report, y).diff_kumul =
                 FSub(RowOf(result_df, y).inflation_kumulativ_destatis,
                      RowOf(df, y).inflation_kumulativ)

\* cum_inflation_b - cum_inflation_a at year y.
CumDiffAt(y) ==
    FSub(RowOf(result_df, y).inflation_kumulativ_destatis,
         RowOf(df, y).inflation_kumulativ)

\* main has finished with both series computed (they share every year).
ComparisonDone ==
    /\ op = "main"
    /\ pc = "done"
    /\ ImplicitReturned
    /\ ChainedReturned

\* C9 as stated: the closing difference is cum_b - cum_a at the maximum year
\* present in both series, whichever year that is, and the comparison has one
\* row per common year.
C9_AsStated ==
    ComparisonDone =>
        /\ ReconciliationRows
        /\ Len(summary) = 1
        /\ summary[1].differenz = CumDiffAt(MaxYear(df))

\* C9, amended: the closing difference is cum_b - cum_a at year 2025, the
\* year main reads, which is the maximum common year only when the series have
\* no later year; with no 2025 record the closing lookup fails and no summary
\* is produced.  The comparison has one row per common year.
C9_DifferenceAtSummaryYear ==
    ComparisonDone =>
        /\ ReconciliationRows
        /\ IF SummaryYear \in YearsOf(df)
           THEN /\ Len(summary) = 1
                /\ summary[1].differenz = CumDiffAt(SummaryYear)
                /\ error = "none"
           ELSE summary = <<>> /\ error = "IndexError"

\* A finished comparison whose series go beyond 2025 and differ there.
C9_Witness ==
    /\ ComparisonDone
    /\ Len(summary) = 1
    /\ MaxYear(df) > SummaryYear
    /\ CumDiffAt(MaxYear(df)) # CumDiffAt(SummaryYear)
    /\ summary[1].differenz # Zero
    /\ Len(report) = 3

\* Control is inside one of the two calculators.
InCalculator ==
    pc \in {"calculate_inflation_rates",
            "calculate_real_umsatz_with_destatis", "iterrows"}

\* C10: while a calculator runs, to its return or its failure, the caller's
\* input series and rate sequence keep their records, fields and values.
C10_InputsUnchanged ==
    [][InCalculator =>
          (df' = df /\ df_nominal' = df_nominal /\ df_destatis' = df_destatis)]_vars

====
